---------------------------- MODULE Spec2Model ----------------------------
(***************************************************************************)
(* A state-machine model of scripts/scrape_stats.py: the incremental       *)
(* scraper that keeps site/data.json (the store) in step with the layout   *)
(* definitions in config/layouts/*.yml.                                    *)
(*                                                                         *)
(* Python values are modelled as follows.                                  *)
(*   - a dict is a function whose DOMAIN is its key set; `k in d` is       *)
(*     k \in DOMAIN d, `del d[k]` restricts the domain;                    *)
(*   - a dict whose insertion order is observable (layout_entries,         *)
(*     all_layout_entries) is a sequence of entries with distinct names;   *)
(*   - str values are TLA+ strings; None, True and False are the reserved  *)
(*     tokens PyNone, PyTrue, PyFalse, and a JSON value that is not a str  *)
(*     (a number) is one of the tokens of NonStrValues;                    *)
(*   - datetime.now() reads the variable clock and advances it.            *)
(* A write of data.json is taken to be atomic.  Layout names are unique    *)
(* among the definitions and among the records of the store, and the       *)
(* --layouts argument names no file twice.                                 *)
(***************************************************************************)
EXTENDS Integers, Sequences, FiniteSets, TLC

(***************************************************************************)
(* Python values                                                           *)
(***************************************************************************)
PyNone == "None"
PyTrue == "True"
PyFalse == "False"
NonStrValues == {"<12.5>"}

EmptyDict == <<>>

Has(d, k) == k \in DOMAIN d

Get(d, k, default) == IF k \in DOMAIN d THEN d[k] ELSE default

Put(d, k, v) == [x \in (DOMAIN d) \cup {k} |-> IF x = k THEN v ELSE d[x]]

Del(d, k) == [x \in (DOMAIN d) \ {k} |-> d[x]]

\* Python truthiness of the values the script tests with `if value:`
Truthy(v) == v \notin {PyNone, PyFalse, ""}

Range(s) == {s[i] : i \in DOMAIN s}

(***************************************************************************)
(* Program constants                                                       *)
(***************************************************************************)
AllModes == <<"ergo", "ansi", "iso", "anglemod">>

\* The number of modes of AllModes the model scrapes.
NumModes == 2

MODES == SubSeq(AllModes, 1, NumModes)

metric_fields ==
    <<"total_word_effort", "effort", "same_finger_bigrams", "skip_bigrams_1u",
      "skip_bigrams_2u", "lat_stretch_bigrams", "scissors", "pinky_off",
      "bigram_roll_in", "bigram_roll_out", "roll_in", "roll_out", "redirect",
      "weak_redirect", "alt", "alt_sfs">>

(***************************************************************************)
(* The characters of the str values the model uses (TLC cannot index a     *)
(* string).                                                                *)
(***************************************************************************)
Chars(s) ==
    CASE s = "" -> <<>>
      [] s = "0" -> <<"0">>
      [] s = "12.34%" -> <<"1", "2", ".", "3", "4", "%">>
      [] s = "56.78%" -> <<"5", "6", ".", "7", "8", "%">>
      [] s = "1258.15" -> <<"1", "2", "5", "8", ".", "1", "5">>
      [] s = "N/A" -> <<"N", "/", "A">>
      [] s = "abc" -> <<"a", "b", "c">>
      [] s = "Error: timeout" ->
            <<"E", "r", "r", "o", "r", ":", " ", "t", "i", "m", "e", "o", "u", "t">>
      [] s = "Error:" -> <<"E", "r", "r", "o", "r", ":">>
      [] s = "%" -> <<"%">>
      [] s = "12%%" -> <<"1", "2", "%", "%">>
      [] s = "12 %" -> <<"1", "2", " ", "%">>
      [] s = "inf" -> <<"i", "n", "f">>
      [] s = "nan" -> <<"n", "a", "n">>
      [] s = "-Infinity" -> <<"-", "I", "n", "f", "i", "n", "i", "t", "y">>
      [] s = "NaN%" -> <<"N", "a", "N", "%">>
      [] s = "1e5" -> <<"1", "e", "5">>
      [] s = "1e" -> <<"1", "e">>
      [] s = " 12 " -> <<" ", "1", "2", " ">>
      [] s = "1_0" -> <<"1", "_", "0">>
      [] s = "-3.5" -> <<"-", "3", ".", "5">>
      [] s = ".5" -> <<".", "5">>
      [] s = "5." -> <<"5", ".">>
      [] s = "." -> <<".">>
      [] s = "n/a" -> <<"n", "/", "a">>
      [] s = "error: x" -> <<"e", "r", "r", "o", "r", ":", " ", "x">>
      [] s = "1,5" -> <<"1", ",", "5">>
      [] s = "ergo" -> <<"e", "r", "g", "o">>
      [] s = "ansi" -> <<"a", "n", "s", "i">>
      [] s = "iso" -> <<"i", "s", "o">>
      [] s = "anglemod" -> <<"a", "n", "g", "l", "e", "m", "o", "d">>
      [] s = "english" -> <<"e", "n", "g", "l", "i", "s", "h">>
      [] s = "dutch" -> <<"d", "u", "t", "c", "h">>
      [] s = "german" -> <<"g", "e", "r", "m", "a", "n">>
      [] s = "mode" -> <<"m", "o", "d", "e">>
      [] s = "lan" -> <<"l", "a", "n">>
      [] s = "&" -> <<"&">>
      [] s = "?" -> <<"?">>
      [] s = "=" -> <<"=">>
      [] s = "&mode=" -> <<"&", "m", "o", "d", "e", "=">>
      [] s = "?mode=" -> <<"?", "m", "o", "d", "e", "=">>
      [] s = "&lan=" -> <<"&", "l", "a", "n", "=">>
      [] s = "?lan=" -> <<"?", "l", "a", "n", "=">>
      [] s = "p" -> <<"p">>
      [] s = "p?layout=a" ->
            <<"p", "?", "l", "a", "y", "o", "u", "t", "=", "a">>
      [] s = "p?layout=a&mode=ergo" ->
            <<"p", "?", "l", "a", "y", "o", "u", "t", "=", "a",
              "&", "m", "o", "d", "e", "=", "e", "r", "g", "o">>
      [] s = "p?mode=ergo&layout=a" ->
            <<"p", "?", "m", "o", "d", "e", "=", "e", "r", "g",
              "o", "&", "l", "a", "y", "o", "u", "t", "=", "a">>
      [] s = "p?layout=a&mode=ergo&lan=english" ->
            <<"p", "?", "l", "a", "y", "o", "u", "t", "=", "a",
              "&", "m", "o", "d", "e", "=", "e", "r", "g", "o",
              "&", "l", "a", "n", "=", "e", "n", "g", "l", "i",
              "s", "h">>
      [] s = "p?lan=english&layout=a" ->
            <<"p", "?", "l", "a", "n", "=", "e", "n", "g", "l",
              "i", "s", "h", "&", "l", "a", "y", "o", "u", "t",
              "=", "a">>
      [] s = "p?layout=a&mode=" ->
            <<"p", "?", "l", "a", "y", "o", "u", "t", "=", "a",
              "&", "m", "o", "d", "e", "=">>
      [] s = "p?mode=&layout=a" ->
            <<"p", "?", "m", "o", "d", "e", "=", "&", "l", "a",
              "y", "o", "u", "t", "=", "a">>
      [] s = "p?lan=&layout=a" ->
            <<"p", "?", "l", "a", "n", "=", "&", "l", "a", "y",
              "o", "u", "t", "=", "a">>
      [] s = "p?layout=a&lan=" ->
            <<"p", "?", "l", "a", "y", "o", "u", "t", "=", "a",
              "&", "l", "a", "n", "=">>
      [] s = "p?mode=ergo&mode=ansi" ->
            <<"p", "?", "m", "o", "d", "e", "=", "e", "r", "g",
              "o", "&", "m", "o", "d", "e", "=", "a", "n", "s",
              "i">>
      [] s = "p?lan=dutch&lan=english" ->
            <<"p", "?", "l", "a", "n", "=", "d", "u", "t", "c",
              "h", "&", "l", "a", "n", "=", "e", "n", "g", "l",
              "i", "s", "h">>
      [] s = "p?xmode=1&plan=2" ->
            <<"p", "?", "x", "m", "o", "d", "e", "=", "1", "&",
              "p", "l", "a", "n", "=", "2">>

Digit == {"0", "1", "2", "3", "4", "5", "6", "7", "8", "9"}
Whitespace == {" ", "\t", "\n"}

Lower(c) ==
    CASE c = "I" -> "i" [] c = "N" -> "n" [] c = "F" -> "f" [] c = "A" -> "a"
      [] c = "T" -> "t" [] c = "Y" -> "y" [] c = "E" -> "e" [] OTHER -> c

LowerSeq(cs) == [i \in 1..Len(cs) |-> Lower(cs[i])]

\* str.startswith
StartsWith(cs, prefix) ==
    Len(cs) >= Len(prefix) /\ SubSeq(cs, 1, Len(prefix)) = prefix

\* str.rstrip(chars): drops every trailing character that is in chars
RECURSIVE RStrip(_, _)
RStrip(cs, chars) ==
    IF cs # <<>> /\ cs[Len(cs)] \in chars
    THEN RStrip(SubSeq(cs, 1, Len(cs) - 1), chars)
    ELSE cs

RECURSIVE LStrip(_, _)
LStrip(cs, chars) ==
    IF cs # <<>> /\ cs[1] \in chars THEN LStrip(Tail(cs), chars) ELSE cs

\* digits, with single underscores allowed between two digits
IsDigitPart(cs) ==
    /\ cs # <<>>
    /\ \A i \in 1..Len(cs) :
          \/ cs[i] \in Digit
          \/ /\ cs[i] = "_"
             /\ i > 1 /\ i < Len(cs)
             /\ cs[i - 1] \in Digit /\ cs[i + 1] \in Digit

IsMantissa(cs) ==
    \/ IsDigitPart(cs)
    \/ \E i \in 1..Len(cs) :
          /\ cs[i] = "."
          /\ LET a == SubSeq(cs, 1, i - 1)
                 b == SubSeq(cs, i + 1, Len(cs))
             IN  /\ a = <<>> \/ IsDigitPart(a)
                 /\ b = <<>> \/ IsDigitPart(b)
                 /\ a # <<>> \/ b # <<>>

IsExponent(cs) ==
    IsDigitPart(IF cs # <<>> /\ cs[1] \in {"+", "-"} THEN Tail(cs) ELSE cs)

IsUnsignedFloat(cs) ==
    \/ IsMantissa(cs)
    \/ \E i \in 1..Len(cs) :
          /\ cs[i] \in {"e", "E"}
          /\ IsMantissa(SubSeq(cs, 1, i - 1))
          /\ IsExponent(SubSeq(cs, i + 1, Len(cs)))
    \/ LowerSeq(cs) \in {<<"i", "n", "f">>, <<"n", "a", "n">>,
                         <<"i", "n", "f", "i", "n", "i", "t", "y">>}

\* float(text) returns, i.e. raises no ValueError
FloatParses(cs) ==
    LET t == RStrip(LStrip(cs, Whitespace), Whitespace)
        u == IF t # <<>> /\ t[1] \in {"+", "-"} THEN Tail(t) ELSE t
    IN  IsUnsignedFloat(u)

(***************************************************************************)
(* The validity oracle                                                     *)
(***************************************************************************)
is_valid_metric_value(value) ==
    IF value = PyNone THEN FALSE
    ELSE IF value \in NonStrValues THEN FALSE
    ELSE IF value = "N/A" THEN FALSE
    ELSE IF StartsWith(Chars(value), Chars("Error:")) THEN FALSE
    ELSE FloatParses(RStrip(Chars(value), {"%"}))

\* Mutant of has_invalid_metrics: only effort is examined.
has_invalid_metrics_of_effort(metrics) ==
    IF metrics = EmptyDict THEN TRUE
    ELSE ~Has(metrics, "effort") \/ ~is_valid_metric_value(metrics["effort"])

\* Mutant of has_invalid_metrics: no bundle is accepted.
has_invalid_metrics_always(metrics) == TRUE

\* TRUE iff the loop over metric_fields finds a field that is missing or
\* whose value is not valid (each distinct value is examined once).
has_invalid_metrics(metrics) ==
    IF metrics = EmptyDict THEN TRUE
    ELSE \/ \E i \in 1..Len(metric_fields) : ~Has(metrics, metric_fields[i])
         \/ \E value \in {metrics[metric_fields[i]] : i \in 1..Len(metric_fields)} :
               ~is_valid_metric_value(value)

\* Mutant of needs_scraping: a bundle that is present is never examined.
needs_scraping_if_missing(layout_data, mode, language, full_refresh) ==
    IF full_refresh THEN TRUE
    ELSE IF ~Has(layout_data, "metrics") THEN TRUE
    ELSE IF ~Has(layout_data["metrics"], mode) THEN TRUE
    ELSE ~Has(layout_data["metrics"][mode], language)

\* Mutant of needs_scraping: full_refresh is ignored.
needs_scraping_unforced(layout_data, mode, language, full_refresh) ==
    IF ~Has(layout_data, "metrics") THEN TRUE
    ELSE IF ~Has(layout_data["metrics"], mode) THEN TRUE
    ELSE IF ~Has(layout_data["metrics"][mode], language) THEN TRUE
    ELSE has_invalid_metrics(layout_data["metrics"][mode][language])

\* needs_scraping
needs_scraping(layout_data, mode, language, full_refresh) ==
    IF full_refresh THEN TRUE
    ELSE IF ~Has(layout_data, "metrics") THEN TRUE
    ELSE IF ~Has(layout_data["metrics"], mode) THEN TRUE
    ELSE IF ~Has(layout_data["metrics"][mode], language) THEN TRUE
    ELSE has_invalid_metrics(layout_data["metrics"][mode][language])


(***************************************************************************)
(* URLs: update_url_language, update_url_mode.  A URL is the sequence of   *)
(* its characters.                                                         *)
(***************************************************************************)
\* sub in cs
Contains(cs, sub) ==
    \E i \in 1..(Len(cs) - Len(sub) + 1) : SubSeq(cs, i, i + Len(sub) - 1) = sub

\* The pattern (prefix)[^&]+ matches at position i of cs.
MatchesAt(cs, i, prefix) ==
    /\ i + Len(prefix) <= Len(cs)
    /\ SubSeq(cs, i, i + Len(prefix) - 1) = prefix
    /\ cs[i + Len(prefix)] # "&"

\* [^&]+ is greedy: the position after the match that has reached j
RECURSIVE MatchEnd(_, _)
MatchEnd(cs, j) ==
    IF j > Len(cs) \/ cs[j] = "&" THEN j ELSE MatchEnd(cs, j + 1)

\* re.sub(r'(prefix)[^&]+', r'\1' + value, cs), scanning from position i:
\* every match, left to right, without overlap
RECURSIVE ReSubFrom(_, _, _, _)
ReSubFrom(cs, i, prefix, value) ==
    IF i > Len(cs) THEN <<>>
    ELSE IF MatchesAt(cs, i, prefix)
         THEN prefix \o value
                \o ReSubFrom(cs, MatchEnd(cs, i + Len(prefix)), prefix, value)
         ELSE <<cs[i]>> \o ReSubFrom(cs, i + 1, prefix, value)

\* The four branches that the two functions share
UpdateUrlParameter(url, name, value) ==
    IF Contains(url, <<"&">> \o name \o <<"=">>)
    THEN ReSubFrom(url, 1, <<"&">> \o name \o <<"=">>, value)
    ELSE IF Contains(url, <<"?">> \o name \o <<"=">>)
    THEN ReSubFrom(url, 1, <<"?">> \o name \o <<"=">>, value)
    ELSE IF Contains(url, <<"?">>)
    THEN url \o <<"&">> \o name \o <<"=">> \o value
    ELSE url \o <<"?">> \o name \o <<"=">> \o value

update_url_language(url, language) ==
    UpdateUrlParameter(Chars(url), Chars("lan"), Chars(language))

update_url_mode(url, mode) ==
    LET url_mode == IF mode = "anglemod" THEN "iso" ELSE mode
    IN  UpdateUrlParameter(Chars(url), Chars("mode"), Chars(url_mode))


(***************************************************************************)
(* Files: config/layouts/*.yml, config/languages.yml, site/data.json       *)
(***************************************************************************)
\* Mutant of load_existing_data: whatever can be made out of the file is
\* returned.
load_existing_data_lenient(file) == file.data

\* load_existing_data: a missing or unparseable file reads as {}
load_existing_data(file) ==
    IF file.kind = "json" THEN file.data ELSE EmptyDict

\* config/layouts is a sequence of [file |-> stem, data |-> parsed YAML
\* mapping] in sorted(glob("*.yml")) order.
\* Position of the first element of seq satisfying stem = name, 0 if none
RECURSIVE IndexOfFile(_, _, _)
IndexOfFile(files, name, i) ==
    IF i > Len(files) THEN 0
    ELSE IF files[i].file = name THEN i
    ELSE IndexOfFile(files, name, i + 1)

\* Mutant of load_layouts: a name without a file is passed over.
load_layouts_of_existing(files, names) ==
    IF names # <<>>
    THEN LET found == SelectSeq(names, LAMBDA n : IndexOfFile(files, n, 1) # 0)
             picked == [i \in 1..Len(found) |->
                           files[IndexOfFile(files, found[i], 1)].data]
         IN  [ok |-> TRUE, layouts |-> SelectSeq(picked, LAMBDA d : d # EmptyDict)]
    ELSE LET all == [i \in 1..Len(files) |-> files[i].data]
         IN  [ok |-> TRUE, layouts |-> SelectSeq(all, LAMBDA d : d # EmptyDict)]

\* load_layouts: [ok |-> FALSE] models the FileNotFoundError of a name
\* without a file; otherwise the parsed non-empty mappings, in the order of
\* names when names are given and in file order when not.
load_layouts(files, names) ==
    IF names # <<>>
    THEN IF \E i \in 1..Len(names) : IndexOfFile(files, names[i], 1) = 0
         THEN [ok |-> FALSE, layouts |-> <<>>]
         ELSE LET picked == [i \in 1..Len(names) |->
                                files[IndexOfFile(files, names[i], 1)].data]
              IN  [ok |-> TRUE,
                   layouts |-> SelectSeq(picked, LAMBDA d : d # EmptyDict)]
    ELSE LET all == [i \in 1..Len(files) |-> files[i].data]
         IN  [ok |-> TRUE, layouts |-> SelectSeq(all, LAMBDA d : d # EmptyDict)]

\* A dict keyed by layout name that remembers insertion order: a sequence
\* of entries with distinct names.
RECURSIVE IndexOfName(_, _, _)
IndexOfName(entries, name, i) ==
    IF i > Len(entries) THEN 0
    ELSE IF entries[i]["name"] = name THEN i
    ELSE IndexOfName(entries, name, i + 1)

HasName(entries, name) == IndexOfName(entries, name, 1) # 0

EntryOf(entries, name) == entries[IndexOfName(entries, name, 1)]

\* d[name] = entry: an existing key keeps its position, a new key goes last
DictSet(entries, name, entry) ==
    IF HasName(entries, name)
    THEN [entries EXCEPT ![IndexOfName(entries, name, 1)] = entry]
    ELSE Append(entries, entry)

\* d.update(other)
RECURSIVE DictUpdate(_, _)
DictUpdate(entries, other) ==
    IF other = <<>> THEN entries
    ELSE DictUpdate(DictSet(entries, Head(other)["name"], Head(other)), Tail(other))

\* {entry['name']: entry for entry in entries}
RECURSIVE DictOfList(_)
DictOfList(entries) ==
    IF entries = <<>> THEN <<>>
    ELSE LET front == SubSeq(entries, 1, Len(entries) - 1)
             last == entries[Len(entries)]
         IN  DictSet(DictOfList(front), last["name"], last)

Names(entries) == {entries[i]["name"] : i \in 1..Len(entries)}

(***************************************************************************)
(* save_results                                                            *)
(***************************************************************************)
\* Mutant of save_results: the timestamp is set at every write.
save_results_stamping(results, update_timestamp, now) ==
    [file |-> [kind |-> "json", data |-> Put(results, "scraped_at", now)],
     clock |-> now + 1]

\* The value written to data.json and the clock after the call.
save_results(results, update_timestamp, now) ==
    [file |-> [kind |-> "json",
               data |-> IF update_timestamp
                        THEN Put(results, "scraped_at", now)
                        ELSE results],
     clock |-> IF update_timestamp THEN now + 1 ELSE now]

\* Mutant of Checkpoint: the write is skipped.
CheckpointSkipped(file, results, now) == [file |-> file, clock |-> now]

\* Mutant of Checkpoint: the write sets the timestamp.
CheckpointStamping(file, results, now) == save_results(results, TRUE, now)

\* The write after each scrape: the file replaces the one on disk and the
\* timestamp of results is left as it is.
Checkpoint(file, results, now) == save_results(results, FALSE, now)

(***************************************************************************)
(* update_metadata                                                         *)
(***************************************************************************)
METADATA_FIELDS == <<"year", "website", "thumb", "family">>

FIELD_DEFAULTS == [thumb |-> PyFalse, family |-> ""]

\* Mutant of SyncField: an empty value removes a field that is present and
\* stores '' in place of one that is absent.
SyncFieldTogglingEmpty(layout_entry, yml_data, field) ==
    LET default == Get(FIELD_DEFAULTS, field, PyNone)
        yml_value == Get(yml_data, field, default)
        existing_value == Get(layout_entry, field, PyNone)
    IN  IF Has(FIELD_DEFAULTS, field)
        THEN Put(layout_entry, field, IF yml_value # PyNone THEN yml_value ELSE default)
        ELSE IF yml_value # PyNone /\ yml_value # ""
             THEN Put(layout_entry, field, yml_value)
             ELSE IF yml_value = ""
                  THEN IF Has(layout_entry, field)
                       THEN Del(layout_entry, field)
                       ELSE Put(layout_entry, field, "")
                  ELSE layout_entry

\* Mutant of SyncField: thumb and family are synced like year and website,
\* without a default.
SyncFieldWithoutDefault(layout_entry, yml_data, field) ==
    LET yml_value == Get(yml_data, field, PyNone)
        existing_value == Get(layout_entry, field, PyNone)
    IN  IF yml_value # PyNone /\ yml_value # ""
        THEN IF existing_value # yml_value
             THEN Put(layout_entry, field, yml_value)
             ELSE layout_entry
        ELSE IF yml_value = "" /\ Has(layout_entry, field)
             THEN Del(layout_entry, field)
             ELSE layout_entry

\* One iteration of the loop over METADATA_FIELDS
SyncField(layout_entry, yml_data, field) ==
    LET default == Get(FIELD_DEFAULTS, field, PyNone)
        yml_value == Get(yml_data, field, default)
        existing_value == Get(layout_entry, field, PyNone)
    IN  IF Has(FIELD_DEFAULTS, field)
        THEN LET new_value == IF yml_value # PyNone THEN yml_value ELSE default
             IN  IF existing_value # new_value
                 THEN Put(layout_entry, field, new_value)
                 ELSE layout_entry
        ELSE IF yml_value # PyNone /\ yml_value # ""
             THEN IF existing_value # yml_value
                  THEN Put(layout_entry, field, yml_value)
                  ELSE layout_entry
             ELSE IF yml_value = "" /\ Has(layout_entry, field)
                  THEN Del(layout_entry, field)
                  ELSE layout_entry

RECURSIVE SyncFields(_, _, _)
SyncFields(layout_entry, yml_data, i) ==
    IF i > Len(METADATA_FIELDS) THEN layout_entry
    ELSE SyncFields(SyncField(layout_entry, yml_data, METADATA_FIELDS[i]),
                    yml_data, i + 1)

\* Mutant of SyncEntry: the url of the record is synced with the link too.
SyncEntryWithUrl(layout_entry, yml_lookup) ==
    IF ~HasName(yml_lookup, layout_entry["name"]) THEN layout_entry
    ELSE Put(SyncFields(layout_entry, EntryOf(yml_lookup, layout_entry["name"]), 1),
             "url", Get(EntryOf(yml_lookup, layout_entry["name"]), "link", ""))

\* The body of the loop over existing_data['layouts']
SyncEntry(layout_entry, yml_lookup) ==
    IF ~HasName(yml_lookup, layout_entry["name"]) THEN layout_entry
    ELSE SyncFields(layout_entry, EntryOf(yml_lookup, layout_entry["name"]), 1)

\* update_metadata: [wrote, file, updated_count]; wrote is FALSE on the
\* early return that leaves data.json as it is.
update_metadata(files, file, now) ==
    LET existing_data == load_existing_data(file)
    IN  IF existing_data = EmptyDict \/ ~Has(existing_data, "layouts")
        THEN [wrote |-> FALSE, file |-> file, updated_count |-> 0]
        ELSE LET yml_lookup == DictOfList(load_layouts(files, <<>>).layouts)
                 old == existing_data["layouts"]
                 new == [i \in 1..Len(old) |-> SyncEntry(old[i], yml_lookup)]
                 synced == Put(existing_data, "layouts", new)
             IN  [wrote |-> TRUE,
                  file |-> save_results(synced, FALSE, now).file,
                  updated_count |-> Cardinality({i \in 1..Len(old) : new[i] # old[i]})]

(***************************************************************************)
(* check_orphaned_layouts                                                  *)
(***************************************************************************)
\* Mutant of check_orphaned_layouts: no record is reported.
check_orphaned_layouts_skipped(files, file) == <<>>

\* Mutant of check_orphaned_layouts: a record is looked up by the name of
\* the definition's file.
check_orphaned_layouts_by_file(files, file) ==
    LET existing_data == load_existing_data(file)
    IN  IF existing_data = EmptyDict \/ ~Has(existing_data, "layouts")
        THEN <<>>
        ELSE LET yml_names == {files[i].file : i \in 1..Len(files)}
                 all == [i \in 1..Len(existing_data["layouts"]) |->
                            existing_data["layouts"][i]["name"]]
             IN  SelectSeq(all, LAMBDA name : name \notin yml_names)

\* The names of the records of data.json without a definition, in store
\* order; a non-empty list is SystemExit(1).
check_orphaned_layouts(files, file) ==
    LET existing_data == load_existing_data(file)
    IN  IF existing_data = EmptyDict \/ ~Has(existing_data, "layouts")
        THEN <<>>
        ELSE LET yml_names == {files[i].data["name"] :
                                  i \in {j \in 1..Len(files) :
                                            /\ files[j].data # EmptyDict
                                            /\ Has(files[j].data, "name")}}
                 all == [i \in 1..Len(existing_data["layouts"]) |->
                            existing_data["layouts"][i]["name"]]
             IN  SelectSeq(all, LAMBDA name : name \notin yml_names)


(***************************************************************************)
(* main: the first pass (planning)                                         *)
(***************************************************************************)
\* Mutant of TasksOfMode: the languages are visited last to first.
TasksOfModeBackwards(layout_data, mode, languages, full_refresh) ==
    LET reversed == [i \in 1..Len(languages) |-> languages[Len(languages) + 1 - i]]
        needed == SelectSeq(reversed,
                     LAMBDA language :
                        needs_scraping(layout_data, mode, language, full_refresh))
    IN  [i \in 1..Len(needed) |->
            <<layout_data["name"], mode, needed[i], layout_data["url"]>>]

\* The loop over languages for one mode: the tasks of the languages that
\* need scraping, in language order.
TasksOfMode(layout_data, mode, languages, full_refresh) ==
    LET needed == SelectSeq(languages,
                     LAMBDA language :
                        needs_scraping(layout_data, mode, language, full_refresh))
    IN  [i \in 1..Len(needed) |->
            <<layout_data["name"], mode, needed[i], layout_data["url"]>>]

\* The loop over MODES from position i on: initialises a missing mode to {}
\* and collects the tasks of each mode.
RECURSIVE PlanModes(_, _, _, _, _)
PlanModes(layout_data, i, languages, full_refresh, tasks) ==
    IF i > Len(MODES) THEN [layout_data |-> layout_data, tasks |-> tasks]
    ELSE LET mode == MODES[i]
             initialised ==
                 IF ~Has(layout_data["metrics"], mode)
                 THEN Put(layout_data, "metrics",
                          Put(layout_data["metrics"], mode, EmptyDict))
                 ELSE layout_data
         IN  PlanModes(initialised, i + 1, languages, full_refresh,
                       tasks \o TasksOfMode(initialised, mode, languages, full_refresh))

\* Mutant of NewLayoutData: the entry starts without the stored metrics.
NewLayoutDataWithoutMetrics(layout, existing_layouts) ==
    [name |-> Get(layout, "name", "Unknown"),
     url |-> Get(layout, "link", ""),
     thumb |-> Get(layout, "thumb", PyFalse),
     metrics |-> [m \in Range(MODES) |-> EmptyDict],
     family |-> Get(layout, "family", "")]

\* Mutant of NewLayoutData: of the stored metrics only the modes of MODES
\* are taken over.
NewLayoutDataOfConfiguredModes(layout, existing_layouts) ==
    LET name == Get(layout, "name", "Unknown")
        website == Get(layout, "website", PyNone)
        year == Get(layout, "year", PyNone)
        existing_layout == IF HasName(existing_layouts, name)
                           THEN EntryOf(existing_layouts, name)
                           ELSE EmptyDict
        metrics == Get(existing_layout, "metrics", EmptyDict)
        base == [name |-> name,
                 url |-> Get(layout, "link", ""),
                 thumb |-> Get(layout, "thumb", PyFalse),
                 metrics |-> [m \in DOMAIN metrics \cap Range(MODES) |-> metrics[m]],
                 family |-> Get(layout, "family", "")]
        with_website == IF Truthy(website) THEN Put(base, "website", website) ELSE base
    IN  IF Truthy(year) THEN Put(with_website, "year", year) ELSE with_website

\* The layout entry built from a definition and the existing record
NewLayoutData(layout, existing_layouts) ==
    LET name == Get(layout, "name", "Unknown")
        website == Get(layout, "website", PyNone)
        year == Get(layout, "year", PyNone)
        existing_layout == IF HasName(existing_layouts, name)
                           THEN EntryOf(existing_layouts, name)
                           ELSE EmptyDict
        base == [name |-> name,
                 url |-> Get(layout, "link", ""),
                 thumb |-> Get(layout, "thumb", PyFalse),
                 metrics |-> Get(existing_layout, "metrics", EmptyDict),
                 family |-> Get(layout, "family", "")]
        with_website == IF Truthy(website) THEN Put(base, "website", website) ELSE base
    IN  IF Truthy(year) THEN Put(with_website, "year", year) ELSE with_website

\* The loop over layouts from position i on
RECURSIVE PlanLayouts(_, _, _, _, _, _, _)
PlanLayouts(layouts, i, existing_layouts, languages, full_refresh, layout_entries, scrape_tasks) ==
    IF i > Len(layouts)
    THEN [layout_entries |-> layout_entries, scrape_tasks |-> scrape_tasks]
    ELSE IF ~Truthy(Get(layouts[i], "link", ""))
    THEN PlanLayouts(layouts, i + 1, existing_layouts, languages, full_refresh,
                     layout_entries, scrape_tasks)
    ELSE LET planned == PlanModes(NewLayoutData(layouts[i], existing_layouts), 1,
                                  languages, full_refresh, <<>>)
         IN  PlanLayouts(layouts, i + 1, existing_layouts, languages, full_refresh,
                         DictSet(layout_entries, planned.layout_data["name"],
                                 planned.layout_data),
                         scrape_tasks \o planned.tasks)

\* existing_layouts, then the first pass over the loaded layouts
FirstPass(layouts, existing_data, languages, full_refresh) ==
    LET existing_layouts == IF Has(existing_data, "layouts")
                            THEN DictOfList(existing_data["layouts"])
                            ELSE <<>>
    IN  PlanLayouts(layouts, 1, existing_layouts, languages, full_refresh, <<>>, <<>>)

\* layout_data['metrics'] is the dict object of the existing record, so what
\* the run stores into it shows in existing_data too.
Aliased(existing_data, layout_entries) ==
    IF ~Has(existing_data, "layouts") THEN existing_data
    ELSE Put(existing_data, "layouts",
             [i \in 1..Len(existing_data["layouts"]) |->
                LET entry == existing_data["layouts"][i]
                IN  IF HasName(layout_entries, entry["name"]) /\ Has(entry, "metrics")
                    THEN Put(entry, "metrics",
                             EntryOf(layout_entries, entry["name"])["metrics"])
                    ELSE entry])

\* all_layout_entries as built for --layouts, before the update
ExistingEntries(existing_data) ==
    IF Has(existing_data, "layouts") THEN DictOfList(existing_data["layouts"]) ELSE <<>>

\* Mutant of ResultsLayouts: the list is always that of layout_entries.
ResultsLayoutsOfThisRun(use_subset, all_entries, layout_entries) == layout_entries

\* results['layouts'] as rebuilt before every write
ResultsLayouts(use_subset, all_entries, layout_entries) ==
    IF use_subset THEN DictUpdate(all_entries, layout_entries) ELSE layout_entries

\* Mutant of MergeStats: the mode's mapping is replaced by one holding only
\* the new bundle.
MergeStatsReplacingMode(layout_entries, layout_name, mode, language, stats) ==
    LET entry == EntryOf(layout_entries, layout_name)
    IN  DictSet(layout_entries, layout_name,
                Put(entry, "metrics",
                    Put(entry["metrics"], mode, Put(EmptyDict, language, stats))))

\* Mutant of NextTask: the task of a failed fetch is taken again.
NextTaskAfterSuccess(idx, stats) ==
    IF Get(stats, "effort", PyNone) = PyNone THEN idx ELSE idx + 1

\* for layout_name, mode, language, base_link in scrape_tasks: the loop goes
\* on to the next task whatever scrape_layout_stats returned
NextTask(idx, stats) == idx + 1

\* Mutant of MergeStats: the bundle of a failed fetch is not stored.
MergeStatsOfSuccess(layout_entries, layout_name, mode, language, stats) ==
    IF Get(stats, "effort", PyNone) = PyNone THEN layout_entries
    ELSE LET entry == EntryOf(layout_entries, layout_name)
             metrics == entry["metrics"]
             bymode == IF Has(metrics, mode) THEN metrics[mode] ELSE EmptyDict
         IN  DictSet(layout_entries, layout_name,
                     Put(entry, "metrics", Put(metrics, mode, Put(bymode, language, stats))))

\* layout_entries[layout_name]['metrics'][mode][language] = stats
MergeStats(layout_entries, layout_name, mode, language, stats) ==
    LET entry == EntryOf(layout_entries, layout_name)
        metrics == entry["metrics"]
        bymode == IF Has(metrics, mode) THEN metrics[mode] ELSE EmptyDict
    IN  DictSet(layout_entries, layout_name,
                Put(entry, "metrics", Put(metrics, mode, Put(bymode, language, stats))))


(***************************************************************************)
(* Bounds and the inputs the model draws from                              *)
(***************************************************************************)
\* At most this many fetches of one run fail or come back incomplete.
MaxFailures == 1

\* config/languages.yml
LanguageLists == {<<"english", "dutch">>}

\* Metric bundles: what an earlier run stored, and what a fetch returns
Bundle(v) == [f \in Range(metric_fields) |-> v]
OldValid == [Bundle("12.34%") EXCEPT !["total_word_effort"] = "1258.15"]
OldNotAvailable == [OldValid EXCEPT !["effort"] = "N/A"]
OldFailed == Bundle(PyNone)
NewValid == [Bundle("56.78%") EXCEPT !["effort"] = "0"]
NewFailed == Bundle(PyNone)

FetchOutcomes == {NewValid, NewFailed}

\* The parsed YAML mappings of config/layouts, by file
DefA == [name |-> "A", link |-> "http://p/?layout=a&mode=ergo", year |-> "2020",
         website |-> "http://a", thumb |-> PyTrue, family |-> "fam"]
DefB == [name |-> "B", link |-> "http://p/?layout=b"]
DefC == [name |-> "C", link |-> "", website |-> "", thumb |-> PyFalse]

FilesAB == <<[file |-> "a", data |-> DefA], [file |-> "b", data |-> DefB]>>
FilesABC == FilesAB \o <<[file |-> "c", data |-> DefC]>>

\* The command lines: default, --full-refresh, --layouts NAME ...
ArgsSamples ==
    {[full_refresh |-> FALSE, layouts |-> <<>>],
     [full_refresh |-> TRUE, layouts |-> <<>>],
     [full_refresh |-> FALSE, layouts |-> <<"b">>],
     [full_refresh |-> FALSE, layouts |-> <<"b", "a">>],
     [full_refresh |-> FALSE, layouts |-> <<"c">>],
     [full_refresh |-> FALSE, layouts |-> <<"zz">>]}

\* metrics mappings of a stored record, over the modes and languages given
FullMetrics(modes, langs, bundle) ==
    [m \in Range(modes) |-> [l \in Range(langs) |-> bundle]]

MetricsSamples(langs) ==
    LET full == FullMetrics(MODES, langs, OldValid)
        first == MODES[1]
        last == MODES[Len(MODES)]
    IN  {full,
         EmptyDict,
         [full EXCEPT ![first][langs[Len(langs)]] = OldNotAvailable],
         [full EXCEPT ![last][langs[1]] = OldFailed],
         [full EXCEPT ![last] = Del(@, langs[Len(langs)])],
         Del(full, last),
         Put([full EXCEPT ![first] = Put(@, "german", OldValid)],
             "matrix", [english |-> OldValid])}

\* A record as an earlier run wrote it for a definition
StoredRecord(name, url, metrics) ==
    [name |-> name, url |-> url, thumb |-> PyFalse, family |-> "", metrics |-> metrics]

\* A record whose descriptive fields no longer agree with its definition
Stale(record) ==
    Put(Put(Put(Put(record, "website", "http://old"), "year", "1999"),
            "thumb", PyTrue), "family", "old")

StoreOf(langs, layouts) ==
    [kind |-> "json",
     data |-> [scraped_at |-> 0, modes |-> MODES, languages |-> langs,
               layouts |-> layouts]]

\* The configurations the model starts from, [files, disk]: no store, or an
\* unparseable one (its data is what the damaged text was written from); a record of A with any of the sample metrics and
\* optionally one of B, in either order; the same with a record of C, whose
\* definition has no link; a record of G, which has no definition; records
\* of A, B and C with stale descriptive fields; records of B and A under
\* other recorded modes and languages than the configured ones.
StartSamples(langs) ==
    LET full == FullMetrics(MODES, langs, OldValid)
        As == {<<StoredRecord("A", DefA["link"], m)>> : m \in MetricsSamples(langs)}
        Bs == {<<>>} \cup
              {<<StoredRecord("B", DefB["link"], m)>> :
                  m \in {full, [full EXCEPT ![MODES[1]][langs[1]] = OldFailed]}}
        B == <<StoredRecord("B", DefB["link"], full)>>
        C == <<StoredRecord("C", "http://p/?layout=c", full)>>
        G == <<StoredRecord("G", "http://p/?layout=g", full)>>
        A1 == <<StoredRecord("A", DefA["link"], full)>>
        A2 == <<StoredRecord("A", DefA["link"], Del(full, MODES[Len(MODES)]))>>
    IN  {[files |-> FilesAB, disk |-> [kind |-> "absent", data |-> EmptyDict]],
         [files |-> FilesAB,
          disk |-> [kind |-> "corrupt", data |-> StoreOf(langs, A1 \o B).data]]}
        \cup {[files |-> FilesAB, disk |-> StoreOf(langs, a \o b)] : a \in As, b \in Bs}
        \cup {[files |-> FilesAB, disk |-> StoreOf(langs, b \o a)] :
                 a \in {A1, A2}, b \in Bs \ {<<>>}}
        \cup {[files |-> FilesABC, disk |-> StoreOf(langs, a \o b \o C)] :
                 a \in {A1, A2}, b \in Bs}
        \cup {[files |-> FilesAB, disk |-> StoreOf(langs, a \o G)] : a \in {A1, A2}}
        \cup {[files |-> FilesAB,
              disk |-> [kind |-> "json",
                        data |-> [StoreOf(langs, B \o A1).data
                                     EXCEPT !["modes"] = <<"matrix">>,
                                            !["languages"] = <<"dutch", "german">>]]]}
        \cup {[files |-> FilesABC,
             disk |-> StoreOf(langs, <<Stale(a[1])>> \o <<Del(Stale(B[1]), "family")>> \o <<Stale(C[1])>>)] :
                 a \in {A1, A2}}

(***************************************************************************)
(* State                                                                   *)
(***************************************************************************)
VARIABLES
    files,               \* config/layouts: [file, data] in file order
    languages,           \* config/languages.yml
    disk,                \* site/data.json
    clock,               \* what datetime.now() returns next
    pc,                  \* where main is
    run,                 \* 1: the run followed step by step, 2: its relaunch
    args,                \* the parsed command line
    existing_data,
    layout_entries,
    all_layout_entries,
    scrape_tasks,
    results,
    idx,                 \* position of the fetch loop in scrape_tasks
    stats,               \* what scrape_layout_stats returned for task idx
    scraped_count,
    errors,
    exit_code,           \* -1 while running, else the process's exit status
    disk0,               \* history: data.json when run 1 was launched
    args0,               \* history: the command line of run 1
    loaded0,             \* history: the store run 1 loaded for its first pass
    planned,             \* history: run 1 finished its first pass
    fetched,             \* history: the calls of scrape_layout_stats, [task, stats]
    writes,              \* history: the number of checkpoint writes of the fetch loop
    plan0,               \* history: the task list of run 1
    killed,              \* history: run 1 was interrupted
    fn,                  \* the function last called on its own, "" when none was
    arg,                 \* its arguments
    ret                  \* what it returned

vars == <<files, languages, disk, clock, pc, run, args, existing_data, layout_entries,
          all_layout_entries, scrape_tasks, results, idx, stats, scraped_count,
          errors, exit_code, disk0, args0, loaded0, planned, fetched, writes, plan0,
          killed, fn, arg, ret>>

call == <<fn, arg, ret>>

memory == <<existing_data, layout_entries, all_layout_entries, scrape_tasks, results,
            idx, stats, scraped_count, errors>>

history == <<disk0, args0, loaded0, planned, fetched, writes, plan0, killed>>

NoArgs == [full_refresh |-> FALSE, layouts |-> <<>>]

Init ==
    /\ languages \in LanguageLists
    /\ \E start \in StartSamples(languages) :
          /\ files = start.files
          /\ disk = start.disk
    /\ clock = 1
    /\ pc = "idle"
    /\ run = 1
    /\ args = NoArgs
    /\ existing_data = EmptyDict
    /\ layout_entries = <<>>
    /\ all_layout_entries = <<>>
    /\ scrape_tasks = <<>>
    /\ results = EmptyDict
    /\ idx = 0
    /\ stats = EmptyDict
    /\ scraped_count = 0
    /\ errors = 0
    /\ exit_code = -1
    /\ disk0 = disk
    /\ args0 = NoArgs
    /\ loaded0 = EmptyDict
    /\ planned = FALSE
    /\ fetched = <<>>
    /\ writes = 0
    /\ plan0 = <<>>
    /\ killed = FALSE
    /\ fn = ""
    /\ arg = <<>>
    /\ ret = <<>>


(***************************************************************************)
(* main, step by step                                                      *)
(***************************************************************************)
Running == {"metadata", "audit", "plan", "scrape", "merge", "final", "postaudit"}

\* argparse: the process starts
Launch(a) ==
    /\ pc = "idle"
    /\ args' = a
    /\ args0' = a
    /\ pc' = "metadata"
    /\ UNCHANGED <<call, files, languages, disk, clock, run, memory, exit_code, disk0,
                   loaded0, planned, fetched, writes, plan0, killed>>

\* update_metadata()
UpdateMetadata ==
    /\ pc = "metadata"
    /\ disk' = update_metadata(files, disk, clock).file
    /\ pc' = "audit"
    /\ UNCHANGED <<call, files, languages, clock, run, args, memory, exit_code, history>>

\* Mutant of CheckOrphanedLayouts: main goes on to the first pass without
\* the check.
CheckOrphanedLayoutsLeftOut ==
    /\ pc = "audit"
    /\ pc' = "plan"
    /\ UNCHANGED <<call, files, languages, disk, clock, run, args, memory, exit_code, history>>

\* check_orphaned_layouts() before the scrape
CheckOrphanedLayouts ==
    /\ pc = "audit"
    /\ IF check_orphaned_layouts(files, disk) # <<>>
       THEN pc' = "exit" /\ exit_code' = 1
       ELSE pc' = "plan" /\ exit_code' = exit_code
    /\ UNCHANGED <<call, files, languages, disk, clock, run, args, memory, history>>

\* Mutant of AfterFirstPass: main goes on to the final save when nothing is
\* to be scraped.
AfterFirstPassSaving(tasks) == IF tasks = <<>> THEN "final" ELSE "scrape"

\* if total_tasks == 0: return
AfterFirstPass(tasks) == IF tasks = <<>> THEN "exit" ELSE "scrape"

\* The loads, the first pass, results, and the return when nothing is to be
\* scraped.
Plan ==
    /\ pc = "plan"
    /\ \E loaded \in {load_layouts(files, args.layouts)}, data \in {load_existing_data(disk)} :
       \E pass \in {FirstPass(loaded.layouts, data, languages,
                              args.full_refresh \/ args.layouts # <<>>)} :
       \E aliased \in {Aliased(data, pass.layout_entries)} :
          IF ~loaded.ok
          THEN /\ pc' = "exit"
               /\ exit_code' = 1
               /\ UNCHANGED <<clock, memory, plan0, loaded0, planned>>
          ELSE /\ existing_data' = aliased
               /\ loaded0' = data
               /\ planned' = TRUE
               /\ layout_entries' = pass.layout_entries
               /\ scrape_tasks' = pass.scrape_tasks
               /\ plan0' = pass.scrape_tasks
               /\ all_layout_entries' =
                     IF args.layouts # <<>>
                     THEN DictUpdate(ExistingEntries(aliased), pass.layout_entries)
                     ELSE <<>>
               /\ results' =
                     [scraped_at |-> Get(data, "scraped_at", clock),
                      modes |-> MODES,
                      languages |-> languages,
                      layouts |-> ResultsLayouts(args.layouts # <<>>,
                                                 ExistingEntries(aliased),
                                                 pass.layout_entries)]
               /\ clock' = clock + 1
               /\ idx' = IF pass.scrape_tasks = <<>> THEN 0 ELSE 1
               /\ pc' = AfterFirstPass(pass.scrape_tasks)
               /\ exit_code' = IF pass.scrape_tasks = <<>> THEN 0 ELSE exit_code
               /\ UNCHANGED <<stats, scraped_count, errors>>
    /\ UNCHANGED <<call, files, languages, disk, run, args, disk0, args0, fetched, writes,
                   killed>>

\* The fetch of task idx: scrape_layout_stats returns a bundle
Scrape(bundle) ==
    /\ pc = "scrape"
    /\ bundle = NewValid \/ Cardinality({i \in 1..Len(fetched) :
                                            fetched[i].stats # NewValid}) < MaxFailures
    /\ stats' = bundle
    /\ fetched' = Append(fetched, [task |-> scrape_tasks[idx], stats |-> bundle])
    /\ pc' = "merge"
    /\ UNCHANGED <<call, files, languages, disk, clock, run, args, existing_data,
                   layout_entries, all_layout_entries, scrape_tasks, results, idx,
                   scraped_count, errors, exit_code, disk0, args0, loaded0, planned,
                   writes, plan0, killed>>

\* The rest of the loop body: the error count, the merge into layout_entries
\* and the checkpoint write
MergeAndSave ==
    /\ pc = "merge"
    /\ \E merged \in {MergeStats(layout_entries, scrape_tasks[idx][1], scrape_tasks[idx][2],
                                 scrape_tasks[idx][3], stats)} :
       \E new_results \in {Put(results, "layouts",
                               ResultsLayouts(args.layouts # <<>>, all_layout_entries,
                                              merged))} :
          /\ errors' = IF Get(stats, "effort", PyNone) = PyNone THEN errors + 1 ELSE errors
          /\ layout_entries' = merged
          /\ existing_data' = Aliased(existing_data, merged)
          /\ all_layout_entries' = IF args.layouts # <<>>
                                   THEN new_results["layouts"]
                                   ELSE all_layout_entries
          /\ results' = new_results
          /\ scraped_count' = scraped_count + 1
          /\ disk' = Checkpoint(disk, new_results, clock).file
          /\ clock' = Checkpoint(disk, new_results, clock).clock
          /\ writes' = writes + 1
    /\ idx' = NextTask(idx, stats)
    /\ pc' = IF idx < Len(scrape_tasks) THEN "scrape" ELSE "final"
    /\ UNCHANGED <<call, files, languages, run, args, scrape_tasks, stats, exit_code,
                   disk0, args0, loaded0, planned, fetched, plan0, killed>>

\* The final save, with the timestamp
FinalSave ==
    /\ pc = "final"
    /\ LET new_results == Put(results, "layouts",
                              ResultsLayouts(args.layouts # <<>>, all_layout_entries,
                                             layout_entries))
           saved == save_results(new_results, TRUE, clock)
       IN  /\ results' = saved.file.data
           /\ disk' = saved.file
           /\ clock' = saved.clock
    /\ pc' = "postaudit"
    /\ UNCHANGED <<call, files, languages, run, args, existing_data, layout_entries,
                   all_layout_entries, scrape_tasks, idx, stats, scraped_count,
                   errors, exit_code, history>>

\* check_orphaned_layouts() after the final save, and the end of main
PostAudit ==
    /\ pc = "postaudit"
    /\ pc' = "exit"
    /\ exit_code' = IF check_orphaned_layouts(files, disk) # <<>> THEN 1 ELSE 0
    /\ UNCHANGED <<call, files, languages, disk, clock, run, args, memory, history>>

\* The process is killed between two steps
Interrupt ==
    /\ pc \in Running
    /\ run = 1
    /\ pc' = "killed"
    /\ killed' = TRUE
    /\ UNCHANGED <<call, files, languages, disk, clock, run, args, memory, exit_code,
                   disk0, args0, loaded0, planned, fetched, writes, plan0>>

\* main is launched again with the default arguments on what run 1 left in
\* data.json.  The relaunch is followed through update_metadata, the orphan
\* check and the first pass; its task list is kept in scrape_tasks.  (Its
\* fetch loop is the loop of a run started from that store.)
Relaunch ==
    /\ pc \in {"exit", "killed"}
    /\ run = 1
    /\ run' = 2
    /\ \E synced \in {update_metadata(files, disk, clock).file} :
       \E pass \in {FirstPass(load_layouts(files, <<>>).layouts,
                              load_existing_data(synced), languages, FALSE)} :
          /\ disk' = synced
          /\ args' = NoArgs
          /\ IF check_orphaned_layouts(files, synced) # <<>>
             THEN /\ exit_code' = 1
                  /\ pc' = "exit"
                  /\ UNCHANGED memory
             ELSE /\ exit_code' = IF pass.scrape_tasks = <<>> THEN 0 ELSE -1
                  /\ pc' = IF pass.scrape_tasks = <<>> THEN "exit" ELSE "planned"
                  /\ existing_data' = Aliased(load_existing_data(synced), pass.layout_entries)
                  /\ layout_entries' = pass.layout_entries
                  /\ scrape_tasks' = pass.scrape_tasks
                  /\ all_layout_entries' = <<>>
                  /\ results' = [scraped_at |-> Get(load_existing_data(synced),
                                                    "scraped_at", clock),
                                 modes |-> MODES, languages |-> languages,
                                 layouts |-> pass.layout_entries]
                  /\ idx' = IF pass.scrape_tasks = <<>> THEN 0 ELSE 1
                  /\ stats' = EmptyDict
                  /\ scraped_count' = 0
                  /\ errors' = 0
    /\ UNCHANGED <<call, files, languages, clock, history>>

Next ==
    \/ \E a \in ArgsSamples : Launch(a)
    \/ UpdateMetadata
    \/ CheckOrphanedLayouts
    \/ Plan
    \/ \E bundle \in FetchOutcomes : Scrape(bundle)
    \/ MergeAndSave
    \/ FinalSave
    \/ PostAudit
    \/ Interrupt
    \/ Relaunch

Spec == Init /\ [][Next]_vars


(***************************************************************************)
(* The functions of the module called on their own                         *)
(***************************************************************************)
\* Metric values: None, a number, and str values
ValueSamples ==
    {PyNone} \cup NonStrValues \cup
    {"N/A", "n/a", "Error: timeout", "Error:", "error: x", "abc", "", "%", ".",
     "12.34%", "56.78%", "1258.15", "0", "-3.5", ".5", "5.", "1e5", "1e", "1_0",
     " 12 ", "1,5", "12%%", "12 %", "inf", "nan", "-Infinity", "NaN%"}

\* Bundles: empty, complete and valid, one field replaced, one field
\* missing, one field too many
BundleSamples ==
    {EmptyDict, OldValid, NewValid, Put(OldValid, "finger_usage", "abc")}
        \cup {[OldValid EXCEPT ![f] = v] : f \in Range(metric_fields), v \in ValueSamples}
        \cup {Del(OldValid, f) : f \in Range(metric_fields)}

\* Each behaviour of CallSpec makes one call.
\* The variables of a run of main
program == <<files, languages, disk, clock, pc, run, args, memory, exit_code, history>>

CallInit == Init /\ disk.kind = "absent"

CallIsValidMetricValue(value) ==
    /\ fn = ""
    /\ fn' = "is_valid_metric_value"
    /\ arg' = <<value>>
    /\ ret' = is_valid_metric_value(value)
    /\ UNCHANGED program

CallHasInvalidMetrics(metrics) ==
    /\ fn = ""
    /\ fn' = "has_invalid_metrics"
    /\ arg' = <<metrics>>
    /\ ret' = has_invalid_metrics(metrics)
    /\ UNCHANGED program

\* The store of A and B with every bundle valid but the one given, at the
\* first mode and the last language of A
StoreWith(metrics) ==
    LET full == FullMetrics(MODES, languages, OldValid)
    IN  StoreOf(languages,
                <<StoredRecord("A", DefA["link"],
                               [full EXCEPT ![MODES[1]][languages[Len(languages)]] = metrics]),
                  StoredRecord("B", DefB["link"], full)>>).data

\* The first pass of main without --full-refresh over that store
CallFirstPass(metrics) ==
    /\ fn = ""
    /\ fn' = "main"
    /\ arg' = <<metrics>>
    /\ ret' = FirstPass(load_layouts(files, <<>>).layouts, StoreWith(metrics),
                        languages, FALSE).scrape_tasks
    /\ UNCHANGED program

\* URLs: without a query string, with and without the parameter, the
\* parameter first, in the middle and last, empty, and given twice
UrlSamples ==
    {"p", "p?layout=a", "p?layout=a&mode=ergo",
     "p?mode=ergo&layout=a", "p?layout=a&mode=ergo&lan=english",
     "p?lan=english&layout=a", "p?layout=a&mode=", "p?mode=&layout=a",
     "p?lan=&layout=a", "p?layout=a&lan=", "p?mode=ergo&mode=ansi",
     "p?lan=dutch&lan=english", "p?xmode=1&plan=2"}

CallUpdateUrlMode(url, mode) ==
    /\ fn = ""
    /\ fn' = "update_url_mode"
    /\ arg' = <<url, mode>>
    /\ ret' = update_url_mode(url, mode)
    /\ UNCHANGED program

CallUpdateUrlLanguage(url, language) ==
    /\ fn = ""
    /\ fn' = "update_url_language"
    /\ arg' = <<url, language>>
    /\ ret' = update_url_language(url, language)
    /\ UNCHANGED program

\* Definitions of one layout with a link: each metadata field absent,
\* null, empty or given
DefinitionSamples ==
    {DefA, DefB}
        \cup {Put(DefB, "thumb", v) : v \in {PyNone, PyTrue, PyFalse}}
        \cup {Put(DefB, "family", v) : v \in {PyNone, "", "fam"}}
        \cup {Put(DefB, "year", v) : v \in {PyNone, "", "2020"}}
        \cup {Put(DefB, "website", v) : v \in {PyNone, "", "http://a"}}

\* The record that the first pass of main builds for a layout that has no
\* record yet, and what update_metadata makes of that record under the same
\* definition
CallUpdateMetadata(layout) ==
    /\ fn = ""
    /\ fn' = "update_metadata"
    /\ arg' = <<layout>>
    /\ ret' = LET rebuilt == NewLayoutData(layout, <<>>)
              IN  [rebuilt |-> rebuilt,
                   reconciled |-> SyncEntry(rebuilt, DictOfList(<<layout>>))]
    /\ UNCHANGED program

CallNext ==
    \/ \E value \in ValueSamples : CallIsValidMetricValue(value)
    \/ \E url \in UrlSamples, mode \in Range(AllModes) : CallUpdateUrlMode(url, mode)
    \/ \E url \in UrlSamples, language \in {"english", "dutch", "german"} :
          CallUpdateUrlLanguage(url, language)
    \/ \E metrics \in BundleSamples : CallHasInvalidMetrics(metrics)
    \/ \E metrics \in BundleSamples : CallFirstPass(metrics)
    \/ \E layout \in DefinitionSamples : CallUpdateMetadata(layout)

CallSpec == CallInit /\ [][CallNext]_vars


(***************************************************************************)
(* Vocabulary of the properties                                            *)
(***************************************************************************)
\* The records of a data.json file
LayoutsOf(file) == Get(load_existing_data(file), "layouts", <<>>)

\* The (layout, mode, language) slots that hold a bundle in a list of records
SlotsOf(layouts) ==
    UNION {UNION {{<<layouts[i]["name"], m, l>> : l \in DOMAIN layouts[i]["metrics"][m]} :
                     m \in DOMAIN layouts[i]["metrics"]} :
              i \in 1..Len(layouts)}

BundleAt(layouts, slot) == EntryOf(layouts, slot[1])["metrics"][slot[2]][slot[3]]

SlotOfTask(task) == <<task[1], task[2], task[3]>>

\* The timestamp of a data.json file, -1 when it has none
TimestampOf(file) == Get(load_existing_data(file), "scraped_at", -1)

OnlyInvalid(a) == ~a.full_refresh /\ a.layouts = <<>>

(***************************************************************************)
(* C1.  In a run with refresh scope only-invalid, every bundle that is     *)
(* valid in data.json when the run starts is never fetched again and is    *)
(* in data.json, unchanged, after every write of the run.                  *)
(* Fails: a record whose definition has no link is left out of             *)
(* layout_entries, and so out of every file the fetch loop writes.         *)
(***************************************************************************)
C1_ValidBundlesKept ==
    (run = 1 /\ pc # "idle" /\ OnlyInvalid(args0)) =>
        \A slot \in SlotsOf(LayoutsOf(disk0)) :
            ~has_invalid_metrics(BundleAt(LayoutsOf(disk0), slot)) =>
                /\ \A i \in 1..Len(fetched) : SlotOfTask(fetched[i].task) # slot
                /\ slot \in SlotsOf(LayoutsOf(disk))
                /\ BundleAt(LayoutsOf(disk), slot) = BundleAt(LayoutsOf(disk0), slot)


(***************************************************************************)
(* C2.  Merging one fetch result changes exactly the bundle at the task's  *)
(* (layout, mode, language) slot: the step that merges and checkpoints     *)
(* keeps the records and their order, puts the fetched bundle at the slot, *)
(* leaves every other bundle of every record as it was, and writes just    *)
(* that store to data.json.                                                *)
(***************************************************************************)
C2_MergeChangesOneSlot ==
    [][(pc = "merge" /\ pc' # "killed") =>
          LET before == results["layouts"]
              after == results'["layouts"]
              slot == SlotOfTask(scrape_tasks[idx])
          IN  /\ [i \in 1..Len(after) |-> after[i]["name"]]
                    = [i \in 1..Len(before) |-> before[i]["name"]]
              /\ SlotsOf(after) = SlotsOf(before) \cup {slot}
              /\ \A other \in SlotsOf(before) \ {slot} :
                    BundleAt(after, other) = BundleAt(before, other)
              /\ BundleAt(after, slot) = stats
              /\ LayoutsOf(disk') = after]_vars

\* A merge has put a fresh bundle next to an old bundle of the same layout,
\* in a store of two or more records.
C2_Witness ==
    /\ run = 1
    /\ writes >= 1
    /\ Len(results["layouts"]) >= 2
    /\ \E s1, s2 \in SlotsOf(results["layouts"]) :
          /\ s1[1] = s2[1]
          /\ BundleAt(results["layouts"], s1) = NewValid
          /\ BundleAt(results["layouts"], s2) = OldValid


(***************************************************************************)
(* Vocabulary of the planning properties                                   *)
(***************************************************************************)
\* The definitions run 1 loaded, in the order load_layouts returns them
Definitions == load_layouts(files, args0.layouts).layouts

\* The definitions the first pass does not skip: those with a link
WithLink(defs) == SelectSeq(defs, LAMBDA d : Truthy(Get(d, "link", "")))

\* The key space of a run: definitions with a link x MODES x languages
KeySpace(defs) ==
    {<<d["name"], m, l>> :
        d \in Range(WithLink(defs)), m \in Range(MODES), l \in Range(languages)}

\* The slots of a task list
TaskSlots(tasks) == {SlotOfTask(tasks[i]) : i \in 1..Len(tasks)}

NoDuplicates(tasks) ==
    \A i, j \in 1..Len(tasks) : SlotOfTask(tasks[i]) = SlotOfTask(tasks[j]) => i = j

\* The position of x in a sequence without duplicates, 0 when it is not in it
PositionIn(seq, x) ==
    IF \E i \in 1..Len(seq) : seq[i] = x
    THEN CHOOSE i \in 1..Len(seq) : seq[i] = x
    ELSE 0

\* The reasons the specification gives for planning a slot, read off the
\* store as it was loaded
Forced(a) == a.full_refresh \/ a.layouts # <<>>

MissingIn(store, slot) ==
    LET layouts == Get(store, "layouts", <<>>)
    IN  \/ ~HasName(layouts, slot[1])
        \/ ~Has(EntryOf(layouts, slot[1])["metrics"], slot[2])
        \/ ~Has(EntryOf(layouts, slot[1])["metrics"][slot[2]], slot[3])

InvalidIn(store, slot) ==
    /\ ~MissingIn(store, slot)
    /\ has_invalid_metrics(BundleAt(store["layouts"], slot))

(***************************************************************************)
(* C3.  The first pass plans a slot of the key space (a definition the run *)
(* loaded and that has a link, a mode of MODES, a configured language) if  *)
(* and only if the refresh scope forces it, or the loaded store has no     *)
(* record of the layout, no entry for the mode or no bundle for the        *)
(* language, or the bundle there is invalid; each such slot is planned     *)
(* once and nothing else is planned.                                       *)
(***************************************************************************)
C3_PlanIsExactlyWhatIsNeeded ==
    (run = 1 /\ planned) =>
        /\ NoDuplicates(plan0)
        /\ TaskSlots(plan0) =
              {slot \in KeySpace(Definitions) :
                  \/ Forced(args0)
                  \/ MissingIn(loaded0, slot)
                  \/ InvalidIn(loaded0, slot)}

\* An only-invalid first pass that planned some slots of the key space and
\* skipped others, among them one planned because its bundle is invalid and
\* one planned because it is missing.
C3_Witness ==
    /\ run = 1
    /\ planned
    /\ OnlyInvalid(args0)
    /\ TaskSlots(plan0) # KeySpace(Definitions)
    /\ \E slot \in TaskSlots(plan0) : InvalidIn(loaded0, slot)
    /\ \E slot \in TaskSlots(plan0) : MissingIn(loaded0, slot)

(***************************************************************************)
(* C4.  The task list is ordered by the order of the loaded definitions,   *)
(* then by the order of MODES, then by the order of the languages; and a   *)
(* second first pass over the same definitions, lists and store (the       *)
(* relaunch of an only-invalid run that wrote no checkpoint) gives the     *)
(* same task sequence.                                                     *)
(***************************************************************************)
\* The positions of a task's layout, mode and language in the loaded
\* definitions, MODES and the language list
Rank(names, task) ==
    <<PositionIn(names, task[1]), PositionIn(MODES, task[2]),
      PositionIn(languages, task[3])>>

\* rank r comes before rank u in (definition, mode, language) order
Before(r, u) ==
    \/ r[1] < u[1]
    \/ r[1] = u[1] /\ r[2] < u[2]
    \/ r[1] = u[1] /\ r[2] = u[2] /\ r[3] < u[3]

C4_PlanOrder ==
    /\ (run = 1 /\ planned) =>
           \A names \in {[i \in 1..Len(Definitions) |->
                             Get(Definitions[i], "name", "Unknown")]} :
           \A ranks \in {[i \in 1..Len(plan0) |-> Rank(names, plan0[i])]} :
              /\ \A i \in 1..Len(ranks) : ranks[i][1] > 0 /\ ranks[i][2] > 0 /\ ranks[i][3] > 0
              /\ \A i \in 1..(Len(ranks) - 1) : Before(ranks[i], ranks[i + 1])
    /\ (run = 2 /\ planned /\ OnlyInvalid(args0) /\ writes = 0) =>
           scrape_tasks = plan0

\* A relaunch has planned again, over the store the first pass of run 1
\* read, a list of tasks of two layouts, two modes and two languages.
C4_Witness ==
    /\ run = 2
    /\ planned
    /\ OnlyInvalid(args0)
    /\ writes = 0
    /\ scrape_tasks = plan0
    /\ Cardinality({plan0[i][1] : i \in 1..Len(plan0)}) >= 2
    /\ Cardinality({plan0[i][2] : i \in 1..Len(plan0)}) >= 2
    /\ Cardinality({plan0[i][3] : i \in 1..Len(plan0)}) >= 2

(***************************************************************************)
(* C5.  In a run with --layouts the whole of data.json is loaded first,    *)
(* and every record of a layout that is not among the named definitions,   *)
(* with or without a definition file, is in data.json as it was loaded,    *)
(* at its place in the list, after every write of the run.                 *)
(***************************************************************************)
\* The names of the definitions run 1 loaded
DefinedNames == {Get(Definitions[i], "name", "Unknown") : i \in 1..Len(Definitions)}

C5_OutsideSubsetUntouched ==
    (run = 1 /\ planned /\ args0.layouts # <<>>) =>
        /\ loaded0 = load_existing_data(update_metadata(files, disk0, 1).file)
        /\ \A i \in 1..Len(Get(loaded0, "layouts", <<>>)) :
              loaded0["layouts"][i]["name"] \notin DefinedNames =>
                  /\ i <= Len(LayoutsOf(disk))
                  /\ LayoutsOf(disk)[i] = loaded0["layouts"][i]

\* A run with --layouts b has written a fetched bundle of B next to the
\* record of A, which has a slot that is missing or invalid.
C5_Witness ==
    /\ run = 1
    /\ args0.layouts = <<"b">>
    /\ writes >= 1
    /\ HasName(LayoutsOf(disk), "A")
    /\ \E slot \in KeySpace(<<DefA>>) :
          MissingIn(loaded0, slot) \/ InvalidIn(loaded0, slot)
    /\ \E slot \in SlotsOf(LayoutsOf(disk)) :
          slot[1] = "B" /\ BundleAt(LayoutsOf(disk), slot) = NewValid

(***************************************************************************)
(* C6.  With --layouts the first pass plans every (mode, language) slot of *)
(* each named definition that has a link, whatever the stored bundle, and  *)
(* plans nothing for any other layout, even one with missing or invalid    *)
(* slots; and the bundles of the other layouts are in data.json unchanged  *)
(* after every write.                                                      *)
(***************************************************************************)
C6_SubsetPlan ==
    (run = 1 /\ planned /\ args0.layouts # <<>>) =>
        /\ TaskSlots(plan0) = KeySpace(Definitions)
        /\ Len(plan0) = Cardinality(KeySpace(Definitions))
        /\ \A slot \in SlotsOf(Get(loaded0, "layouts", <<>>)) :
              slot[1] \notin DefinedNames =>
                  /\ slot \in SlotsOf(LayoutsOf(disk))
                  /\ BundleAt(LayoutsOf(disk), slot) =
                        BundleAt(loaded0["layouts"], slot)

\* A run with --layouts b has fetched and written every slot of B, all of
\* which held valid bundles, and none of A, which has a slot that is
\* missing or invalid.
C6_Witness ==
    /\ run = 1
    /\ args0.layouts = <<"b">>
    /\ pc = "final"
    /\ \A slot \in KeySpace(<<DefB>>) :
          ~MissingIn(loaded0, slot) /\ ~InvalidIn(loaded0, slot)
    /\ \E slot \in KeySpace(<<DefA>>) :
          MissingIn(loaded0, slot) \/ InvalidIn(loaded0, slot)
    /\ Len(fetched) = Cardinality(KeySpace(<<DefB>>))

Remaining ==
    LET left == {i \in 1..Len(plan0) : ~(i <= writes /\ fetched[i].stats = NewValid)}
        pick[n \in 0..Len(plan0)] ==
            IF n = 0 THEN <<>>
            ELSE IF n \in left THEN Append(pick[n - 1], plan0[n]) ELSE pick[n - 1]
    IN  pick[Len(plan0)]

C9_TimestampIffFetched ==
    /\ (run = 1 /\ pc = "exit" /\ ~killed) =>
           (TimestampOf(disk) # TimestampOf(disk0) <=> fetched # <<>>)
    /\ (run = 1 /\ pc = "postaudit") =>
           /\ fetched # <<>>
           /\ TimestampOf(disk) = clock - 1
           /\ TimestampOf(disk) > TimestampOf(disk0)

\* A run has ended without a fetch after update_metadata rewrote a record,
\* and data.json has the timestamp it had.
C9_Witness ==
    /\ run = 1
    /\ pc = "exit"
    /\ exit_code = 0
    /\ planned
    /\ fetched = <<>>
    /\ disk # disk0
    /\ TimestampOf(disk) = 0

FailedWrites == {i \in 1..writes : fetched[i].stats = NewFailed}

C11_FailedBundleStoredAndRetried ==
    /\ has_invalid_metrics(NewFailed)
    /\ \A f \in Range(metric_fields) : NewFailed[f] = PyNone
    /\ run = 1 =>
          /\ \A i \in FailedWrites :
                /\ SlotOfTask(plan0[i]) \in SlotsOf(LayoutsOf(disk))
                /\ BundleAt(LayoutsOf(disk), SlotOfTask(plan0[i])) = NewFailed
          /\ writes >= 1 =>
                /\ DOMAIN load_existing_data(disk) =
                      {"scraped_at", "modes", "languages", "layouts"}
                /\ \A i \in 1..Len(LayoutsOf(disk)) :
                      DOMAIN LayoutsOf(disk)[i] \subseteq
                         {"name", "url", "thumb", "metrics", "family", "website", "year"}
    /\ (run = 2 /\ writes >= 1) =>
          \A i \in FailedWrites : SlotOfTask(plan0[i]) \in TaskSlots(scrape_tasks)

\* A forced run replaced a valid bundle by the bundle of a failed fetch,
\* and the relaunch plans that slot.
C11_Witness ==
    /\ run = 2
    /\ Forced(args0)
    /\ \E i \in FailedWrites :
          /\ ~MissingIn(loaded0, SlotOfTask(plan0[i]))
          /\ BundleAt(loaded0["layouts"], SlotOfTask(plan0[i])) = OldValid
          /\ BundleAt(LayoutsOf(disk), SlotOfTask(plan0[i])) = NewFailed
          /\ SlotOfTask(plan0[i]) \in TaskSlots(scrape_tasks)

YmlLookup == DictOfList(load_layouts(files, <<>>).layouts)

\* The records of a file whose name matches a definition
Matched(file) ==
    {i \in 1..Len(LayoutsOf(file)) : HasName(YmlLookup, LayoutsOf(file)[i]["name"])}

\* update_metadata has just run in run 1
Reconciled == run = 1 /\ pc = "audit"

(***************************************************************************)
(* C13.  After update_metadata, in each record whose name matches a        *)
(* definition, year and website are absent when the definition's value is  *)
(* empty or absent, and equal the definition's value when it is not empty. *)
(* Fails: a field the definition does not mention (or gives as null) is    *)
(* left in the record; only the empty string removes it.                   *)
(***************************************************************************)
C13_OptionalFieldsFollowDefinition ==
    Reconciled =>
        \A i \in Matched(disk) : \A field \in {"year", "website"} :
            LET record == LayoutsOf(disk)[i]
                yml_value == Get(EntryOf(YmlLookup, record["name"]), field, PyNone)
            IN  IF yml_value \in {PyNone, ""}
                THEN ~Has(record, field)
                ELSE Has(record, field) /\ record[field] = yml_value

(***************************************************************************)
(* C14.  After update_metadata, each record whose name matches a           *)
(* definition has thumb and family, equal to the definition's value when   *)
(* the definition gives one and to the default (False, '') when it does    *)
(* not, whatever the record held before.                                   *)
(***************************************************************************)
C14_DefaultedFieldsFollowDefinition ==
    Reconciled =>
        \A i \in Matched(disk) : \A field \in {"thumb", "family"} :
            LET record == LayoutsOf(disk)[i]
                yml_data == EntryOf(YmlLookup, record["name"])
            IN  /\ Has(record, field)
                /\ record[field] = IF Has(yml_data, field) /\ yml_data[field] # PyNone
                                   THEN yml_data[field]
                                   ELSE FIELD_DEFAULTS[field]

\* The record of B, whose definition gives neither field, had thumb True
\* and no family, and now has thumb False and family ''; the record of A
\* has the values of its definition in place of the old ones.
C14_Witness ==
    /\ Reconciled
    /\ HasName(LayoutsOf(disk0), "B")
    /\ EntryOf(LayoutsOf(disk0), "B")["thumb"] = PyTrue
    /\ ~Has(EntryOf(LayoutsOf(disk0), "B"), "family")
    /\ EntryOf(LayoutsOf(disk), "B")["thumb"] = PyFalse
    /\ EntryOf(LayoutsOf(disk), "B")["family"] = ""
    /\ EntryOf(LayoutsOf(disk0), "A")["family"] = "old"
    /\ EntryOf(LayoutsOf(disk), "A")["family"] = "fam"

(***************************************************************************)
(* C15.  update_metadata is idempotent: run again, later, on the file it   *)
(* has just written and with the same definitions, it writes the same file *)
(* and counts no updated record.                                           *)
(***************************************************************************)
C15_ReconcileIdempotent ==
    Reconciled =>
        /\ update_metadata(files, disk, clock + 1).file = disk
        /\ update_metadata(files, disk, clock + 1).updated_count = 0

\* update_metadata has changed all three records of data.json.
C15_Witness ==
    /\ Reconciled
    /\ update_metadata(files, disk0, clock).updated_count = 3
    /\ disk # disk0
    /\ update_metadata(files, disk, clock + 1).wrote

(***************************************************************************)
(* C16.  update_metadata changes only year, website, thumb and family of   *)
(* the records whose name matches a definition: the metrics and every      *)
(* other field of those records, the timestamp, the mode and language      *)
(* lists, the records and their order, and each record without a           *)
(* definition are as they were; a file that is missing or unreadable is    *)
(* left alone; and nothing is fetched.                                     *)
(***************************************************************************)
\* A record without the four descriptive fields
WithoutMetadata(record) ==
    [k \in DOMAIN record \ Range(METADATA_FIELDS) |-> record[k]]

C16_ReconcileFrame ==
    Reconciled =>
        /\ fetched = <<>>
        /\ disk0.kind # "json" => disk = disk0
        /\ disk0.kind = "json" =>
              LET old == load_existing_data(disk0)
                  new == load_existing_data(disk)
              IN  /\ DOMAIN new = DOMAIN old
                  /\ \A k \in DOMAIN old \ {"layouts"} : new[k] = old[k]
                  /\ Len(new["layouts"]) = Len(old["layouts"])
                  /\ \A i \in 1..Len(old["layouts"]) :
                        /\ WithoutMetadata(new["layouts"][i]) =
                              WithoutMetadata(old["layouts"][i])
                        /\ i \notin Matched(disk0) => new["layouts"][i] = old["layouts"][i]

\* update_metadata has rewritten the record of A in a file that also holds
\* a record without a definition.
C16_Witness ==
    /\ Reconciled
    /\ disk # disk0
    /\ HasName(LayoutsOf(disk), "G")
    /\ EntryOf(LayoutsOf(disk), "A") # EntryOf(LayoutsOf(disk0), "A")

(***************************************************************************)
(* C17.  check_orphaned_layouts fails (exit status 1) if and only if some  *)
(* record of data.json has a name that no definition has, and the names it *)
(* lists are exactly the names of those records; otherwise the run goes on *)
(* and, after the final save, ends with status 0.                          *)
(***************************************************************************)
\* The names of the records of a file that no definition of config/layouts has
Orphans(file) ==
    {LayoutsOf(file)[i]["name"] : i \in 1..Len(LayoutsOf(file))}
        \ {files[j].data["name"] :
               j \in {k \in 1..Len(files) : files[k].data # EmptyDict
                                              /\ Has(files[k].data, "name")}}

C17_AuditFailsIffOrphans ==
    [][/\ (pc = "audit" /\ pc' # "killed") =>
             /\ Range(check_orphaned_layouts(files, disk)) = Orphans(disk)
             /\ Orphans(disk) # {} => pc' = "exit" /\ exit_code' = 1
             /\ Orphans(disk) = {} => pc' = "plan" /\ exit_code' = -1
       /\ (pc = "postaudit" /\ pc' # "killed") =>
             /\ Range(check_orphaned_layouts(files, disk)) = Orphans(disk)
             /\ pc' = "exit"
             /\ exit_code' = IF Orphans(disk) # {} THEN 1 ELSE 0]_vars

\* The run has stopped at the first orphan check on a data.json with the
\* record of G, which has no definition.
C17_Witness ==
    /\ run = 1
    /\ pc = "exit"
    /\ exit_code = 1
    /\ ~planned
    /\ Orphans(disk) = {"G"}
    /\ check_orphaned_layouts(files, disk) = <<"G">>

(***************************************************************************)
(* C18.  When data.json holds an orphan at the start of a run, the run     *)
(* ends with status 1 at the first orphan check: there is no first pass    *)
(* and no fetch, the orphaned record is in data.json exactly as it was,    *)
(* and every bundle of every record is as it was.                          *)
(***************************************************************************)
C18_OrphanStopsRun ==
    (run = 1 /\ pc # "idle" /\ Orphans(disk0) # {}) =>
        /\ pc \in {"metadata", "audit", "exit", "killed"}
        /\ pc = "exit" => exit_code = 1
        /\ ~planned
        /\ fetched = <<>>
        /\ writes = 0
        /\ \A name \in Orphans(disk0) :
              /\ HasName(LayoutsOf(disk), name)
              /\ EntryOf(LayoutsOf(disk), name) = EntryOf(LayoutsOf(disk0), name)
        /\ SlotsOf(LayoutsOf(disk)) = SlotsOf(LayoutsOf(disk0))
        /\ \A slot \in SlotsOf(LayoutsOf(disk0)) :
              BundleAt(LayoutsOf(disk), slot) = BundleAt(LayoutsOf(disk0), slot)

\* A forced run on a data.json with the record of G has ended with status
\* 1 after update_metadata rewrote the record of A; A has a missing slot.
C18_Witness ==
    /\ run = 1
    /\ pc = "exit"
    /\ exit_code = 1
    /\ Forced(args0)
    /\ "G" \in Orphans(disk0)
    /\ disk # disk0
    /\ \E slot \in KeySpace(<<DefA>>) : MissingIn(load_existing_data(disk), slot)

NamedFilesExist(a) ==
    \A n \in Range(a.layouts) : \E j \in 1..Len(files) : files[j].file = n

RequiredMetrics ==
    {"total_word_effort", "effort", "same_finger_bigrams", "skip_bigrams_1u",
     "skip_bigrams_2u", "lat_stretch_bigrams", "scissors", "pinky_off",
     "bigram_roll_in", "bigram_roll_out", "roll_in", "roll_out", "redirect",
     "weak_redirect", "alt", "alt_sfs"}

ValidBundle(metrics) ==
    /\ metrics # EmptyDict
    /\ \A f \in RequiredMetrics : Has(metrics, f) /\ is_valid_metric_value(metrics[f])

C22_BundleValidity ==
    /\ fn = "has_invalid_metrics" => (ret <=> ~ValidBundle(arg[1]))
    /\ fn = "main" =>
          ret = IF ValidBundle(arg[1]) THEN <<>>
                ELSE <<<<"A", MODES[1], languages[Len(languages)], DefA["link"]>>>>

\* The first pass was run over a store whose only defect is effort = 'N/A'
\* in one bundle, and planned that slot alone.
C22_Witness ==
    /\ fn = "main"
    /\ arg[1] = OldNotAvailable
    /\ Len(ret) = 1

(***************************************************************************)
(* C23.  is_valid_metric_value(v) is False when v is None, not a str,      *)
(* 'N/A' or starts with 'Error:'; otherwise one trailing percent sign, if  *)
(* any, is set aside and the result is True if and only if the rest is the *)
(* text of a finite real number.                                           *)
(* Fails: rstrip('%') drops every trailing percent sign, and float()       *)
(* accepts 'inf', 'infinity' and 'nan' in any case and with a sign.        *)
(***************************************************************************)
\* The text of a number float() parses to a finite value
FiniteNumber(cs) ==
    LET t == RStrip(LStrip(cs, Whitespace), Whitespace)
        u == IF t # <<>> /\ t[1] \in {"+", "-"} THEN Tail(t) ELSE t
    IN  /\ FloatParses(cs)
        /\ LowerSeq(u) \notin {<<"i", "n", "f">>, <<"n", "a", "n">>,
                               <<"i", "n", "f", "i", "n", "i", "t", "y">>}

WithoutOnePercent(cs) ==
    IF cs # <<>> /\ cs[Len(cs)] = "%" THEN SubSeq(cs, 1, Len(cs) - 1) ELSE cs

ValidValue(v) ==
    /\ v # PyNone
    /\ v \notin NonStrValues
    /\ v # "N/A"
    /\ ~StartsWith(Chars(v), <<"E", "r", "r", "o", "r", ":">>)
    /\ FiniteNumber(WithoutOnePercent(Chars(v)))

C23_ValueValidity ==
    fn = "is_valid_metric_value" => (ret <=> ValidValue(arg[1]))

RECURSIVE IndexOfChar(_, _, _)
IndexOfChar(cs, c, i) ==
    IF i > Len(cs) \/ cs[i] = c THEN i ELSE IndexOfChar(cs, c, i + 1)

\* The URL up to its query string
PathOf(url) == SubSeq(url, 1, IndexOfChar(url, "?", 1) - 1)

\* The query string: what follows the first '?'
QueryOf(url) == SubSeq(url, IndexOfChar(url, "?", 1) + 1, Len(url))

\* The pieces of cs between the separators
RECURSIVE Split(_, _)
Split(cs, sep) ==
    IF cs = <<>> THEN <<>>
    ELSE LET k == IndexOfChar(cs, sep, 1)
         IN  <<SubSeq(cs, 1, k - 1)>> \o Split(SubSeq(cs, k + 1, Len(cs)), sep)

\* The parameters of the query string, in order, as name and value
ParametersOf(url) ==
    LET pieces == Split(QueryOf(url), "&")
    IN  [i \in 1..Len(pieces) |->
            [name |-> SubSeq(pieces[i], 1, IndexOfChar(pieces[i], "=", 1) - 1),
             value |-> SubSeq(pieces[i], IndexOfChar(pieces[i], "=", 1) + 1,
                              Len(pieces[i]))]]

\* result is url with its parameter name set to value: replaced in place
\* where url has the parameter, appended with '&' or '?' where it has not,
\* and nothing else changed
ParameterSet(url, name, value, result) ==
    LET before == ParametersOf(url)
        after == ParametersOf(result)
    IN  /\ PathOf(result) = PathOf(url)
        /\ \E i \in 1..Len(after) : after[i].name = name
        /\ \A i \in 1..Len(after) : after[i].name = name => after[i].value = value
        /\ IF \E i \in 1..Len(before) : before[i].name = name
           THEN /\ Len(after) = Len(before)
                /\ \A i \in 1..Len(before) :
                      /\ after[i].name = before[i].name
                      /\ before[i].name # name => after[i] = before[i]
           ELSE result = url \o (IF Contains(url, <<"?">>) THEN <<"&">> ELSE <<"?">>)
                             \o name \o <<"=">> \o value

(***************************************************************************)
(* C25.  update_url_mode(url, mode) and update_url_language(url, language) *)
(* return the URL with its mode (lan) parameter set to the requested       *)
(* value: an existing value is replaced in place, otherwise the parameter  *)
(* is appended with '&' when the URL has a query string and with '?' when  *)
(* it has none; every other parameter is unchanged; mode 'anglemod' is     *)
(* written as 'iso'.                                                       *)
(***************************************************************************)
C25_UrlParameterSet ==
    /\ fn = "update_url_mode" =>
          ParameterSet(Chars(arg[1]), Chars("mode"),
                       Chars(IF arg[2] = "anglemod" THEN "iso" ELSE arg[2]), ret)
    /\ fn = "update_url_language" =>
          ParameterSet(Chars(arg[1]), Chars("lan"), Chars(arg[2]), ret)

(***************************************************************************)
(* C26.  Planning is a pure computation over its inputs: once the task     *)
(* list is computed, the loaded store (its records and their metrics       *)
(* mappings) is as it was loaded, with no mode or language entry added,    *)
(* removed or changed, and planning has written nothing to the file.       *)
(***************************************************************************)
C26_PlanningIsPure ==
    [][Plan /\ planned' =>
          /\ existing_data' = load_existing_data(disk)
          /\ disk' = disk]_vars

(***************************************************************************)
(* C27.  A run never removes from data.json a record whose layout has a    *)
(* definition: in a run over all definitions (default or --full-refresh)   *)
(* that passes the first orphan check, every record that was in the file   *)
(* when the run started is in the file after every write and at the end,   *)
(* with each of its bundles; a bundle differs from the one at the start    *)
(* only where the run fetched its slot.                                    *)
(* Fails: a record whose definition has no link is left out of             *)
(* layout_entries, so the first checkpoint write drops it.                 *)
(***************************************************************************)
C27_DefinedRecordsKept ==
    (run = 1 /\ pc # "idle" /\ args0.layouts = <<>> /\ Orphans(disk0) = {}) =>
        /\ \A i \in 1..Len(LayoutsOf(disk0)) :
              HasName(LayoutsOf(disk), LayoutsOf(disk0)[i]["name"])
        /\ \A slot \in SlotsOf(LayoutsOf(disk0)) :
              /\ slot \in SlotsOf(LayoutsOf(disk))
              /\ (\A k \in 1..Len(fetched) : SlotOfTask(fetched[k].task) # slot) =>
                    BundleAt(LayoutsOf(disk), slot) = BundleAt(LayoutsOf(disk0), slot)

(***************************************************************************)
(* C28.  After a run of main that completed with at least one task,        *)
(* update_metadata over the same definitions changes no record: the year,  *)
(* website, thumb and family that the run writes when it builds a record   *)
(* from its definition are the ones update_metadata writes.                *)
(* Fails: for a definition whose thumb or family is null the run writes    *)
(* null and update_metadata writes the default.                            *)
(***************************************************************************)
C28_ReconcileAfterRunIsNoOp ==
    /\ fn = "update_metadata" => ret.reconciled = ret.rebuilt
    /\ (run = 1 /\ pc = "exit" /\ ~killed /\ fetched # <<>>) =>
          \A again \in {update_metadata(files, disk, clock)} :
              /\ again.updated_count = 0
              /\ LayoutsOf(again.file) = LayoutsOf(disk)

(***************************************************************************)
(* C29.  A run whose plan is empty writes nothing to data.json after       *)
(* update_metadata and makes no second orphan check: it ends at the return *)
(* that follows the first pass with status 0, and data.json (timestamp,    *)
(* modes, languages, records, their order and every field) is as           *)
(* update_metadata left it, also when the order of the definitions or the  *)
(* configured modes and languages differ from what the file records.       *)
(***************************************************************************)
C29_EmptyPlanWritesNothing ==
    (run = 1 /\ planned /\ plan0 = <<>>) =>
        /\ pc = "exit"
        /\ exit_code = 0
        /\ writes = 0
        /\ fetched = <<>>
        /\ disk = update_metadata(files, disk0, 1).file

\* A run has planned nothing over a file that records B before A and other
\* modes and languages than the configured ones, and the file still does.
C29_Witness ==
    /\ run = 1
    /\ planned
    /\ plan0 = <<>>
    /\ pc = "exit"
    /\ disk0.kind = "json"
    /\ disk.data["modes"] # MODES
    /\ disk.data["languages"] # languages
    /\ disk.data["layouts"][1]["name"] = "B"
    /\ Definitions[1]["name"] = "A"
    /\ TimestampOf(disk) = TimestampOf(disk0)

(***************************************************************************)
(* C30.  A run never removes or alters a bundle stored under a mode that   *)
(* is not in MODES or a language that is not in languages.yml: for every   *)
(* layout the run processes (a loaded definition with a link), each such   *)
(* bundle of data.json at the start of the run is in data.json, unchanged, *)
(* after every write and at the end of the run, whatever the arguments.    *)
(***************************************************************************)
C30_ForeignBundlesKept ==
    (run = 1 /\ pc # "idle") =>
        \A processed \in {{d["name"] : d \in Range(WithLink(Definitions))}} :
        \A slot \in SlotsOf(LayoutsOf(disk0)) :
            (/\ slot[1] \in processed
             /\ slot[2] \notin Range(MODES) \/ slot[3] \notin Range(languages)) =>
                /\ slot \in SlotsOf(LayoutsOf(disk))
                /\ BundleAt(LayoutsOf(disk), slot) = BundleAt(LayoutsOf(disk0), slot)

\* A --full-refresh run has fetched every configured slot of A anew and
\* written the file; the bundles of A under german and under matrix are as
\* they were.
C30_Witness ==
    /\ run = 1
    /\ pc = "exit"
    /\ ~killed
    /\ args0.full_refresh
    /\ \E k \in 1..Len(fetched) :
          /\ fetched[k].task[1] = "A"
          /\ fetched[k].task[2] = MODES[1]
          /\ fetched[k].stats = NewValid
    /\ {<<"A", MODES[1], "german">>, <<"A", "matrix", "english">>}
          \subseteq SlotsOf(LayoutsOf(disk0))
    /\ BundleAt(LayoutsOf(disk), <<"A", MODES[1], "german">>) = OldValid
    /\ BundleAt(LayoutsOf(disk), <<"A", "matrix", "english">>) = OldValid
    /\ BundleAt(LayoutsOf(disk), <<"A", MODES[1], "english">>) = NewValid

=============================================================================
